---------------------------- MODULE Spec2Model ----------------------------
(***************************************************************************)
(* A model of file_list.c: the comparator suite, the growable list, the   *)
(* stat stack used as loop guard, the recursive directory traversal       *)
(* (parse_file_tree), file_list_create, file_list_destroy and             *)
(* file_list_merge.  Spec runs one call of file_list_create, SpecMerge one *)
(* call of file_list_merge, SpecCompare the comparators and qsort() on     *)
(* strings, SpecDepth two calls of file_list_create with growing depth,    *)
(* and SpecLoop is Spec with fairness, for termination.                    *)
(*                                                                         *)
(* C strings are sequences of byte values (ASCII codes); a pointer into a  *)
(* string is a 0-based offset into its buffer.  The byte at offset Len is  *)
(* the terminating NUL; a read beyond it is undefined behaviour and is     *)
(* reported by the value UNDEF (bytes) or UB (comparison results).         *)
(***************************************************************************)
EXTENDS Integers, Sequences, FiniteSets, TLC

(***************************************************************************)
(* Bounds of the model.  FL_INITIAL_LIST_SIZE and FL_MAX_LIST_SIZE "can be *)
(* changed arbitrarily" (file_list.c:28-31); the model runs the program    *)
(* built with small values so that growth, clamping and exhaustion happen. *)
(***************************************************************************)
InitialListSize == 1
MaxListSize == 5
MaxDepthArg == 2
StatStackInitialSize == 2
MaxMergeLen == 2
MaxStrLen == 3
MaxThirdLen == 1

FL_INITIAL_LIST_SIZE == InitialListSize + 0
FL_MAX_LIST_SIZE == MaxListSize + 0

DIR_SEPARATOR == 47

\* ------------------------------------------------------------------------
\* Characters and strings
\* ------------------------------------------------------------------------

Code ==
  [c \in {".", "/", "0", "1", "2", "7", "9", "(", "|", "A", "B", "C", "a", "b", "c",
          "d", "e", "f", "h", "i", "l", "m", "n", "p", "u", "x", "y", "z"} |->
     CASE c = "." -> 46 [] c = "/" -> 47 [] c = "0" -> 48 [] c = "1" -> 49
       [] c = "2" -> 50 [] c = "7" -> 55 [] c = "9" -> 57 [] c = "(" -> 40 [] c = "|" -> 124
       [] c = "A" -> 65 [] c = "B" -> 66 [] c = "C" -> 67
       [] c = "a" -> 97 [] c = "b" -> 98 [] c = "c" -> 99 [] c = "d" -> 100
       [] c = "e" -> 101 [] c = "f" -> 102 [] c = "h" -> 104 [] c = "i" -> 105
       [] c = "l" -> 108 [] c = "m" -> 109
       [] c = "n" -> 110 [] c = "p" -> 112 [] c = "u" -> 117 [] c = "x" -> 120
       [] c = "y" -> 121 [] c = "z" -> 122]

\* The byte string written with one-character strings: Str(<<".", "/", "a">>).
Str(s) == [i \in 1..Len(s) |-> Code[s[i]]]

UNDEF == 0 - 1
UB == 256 * 256

\* *(p + i) for the C string held in buffer b.
At(b, i) ==
  IF i < 0 THEN UNDEF
  ELSE IF i < Len(b) THEN b[i + 1]
  ELSE IF i = Len(b) THEN 0
  ELSE UNDEF

tolower(c) == IF c >= 65 /\ c <= 90 THEN c + 32 ELSE c

isdigit(c) == c >= 48 /\ c <= 57

\* ------------------------------------------------------------------------
\* String comparisons (file_list.c:37-153)
\* ------------------------------------------------------------------------

\* DefaultTail is the loop test "while (*c1 && *c2)" and the code after the
\* loop, DefaultBody one pass through the loop body.
RECURSIVE DefaultBody(_, _, _, _, _)
DefaultTail(b1, i, b2, j, temp_ret) ==
  LET n1 == At(b1, i)
      n2 == At(b2, j)
  IN IF n1 = UNDEF \/ n2 = UNDEF THEN UB
     ELSE IF n1 # 0 /\ n2 # 0 THEN DefaultBody(b1, i, b2, j, temp_ret)
     ELSE IF n1 = n2 THEN temp_ret
     ELSE n1 - n2

DefaultBody(b1, i, b2, j, temp_ret) ==
  LET c1 == At(b1, i)
      c2 == At(b2, j)
  IN IF c1 = UNDEF \/ c2 = UNDEF THEN UB
     ELSE IF c1 # c2
       THEN IF tolower(c1) = tolower(c2)
              THEN DefaultTail(b1, i + 1, b2, j + 1,
                               IF temp_ret = 0 THEN c2 - c1 ELSE temp_ret)
              ELSE tolower(c1) - tolower(c2)
       ELSE DefaultTail(b1, i + 1, b2, j + 1, temp_ret)

\* A default comparator whose temp_ret starts at 1 instead of 0.
strcmp_default_temp_ret_one(b1, i, b2, j) == DefaultBody(b1, i, b2, j, 1)

strcmp_default(b1, i, b2, j) == DefaultBody(b1, i, b2, j, 0)

\* The offset of the last digit of the digit run that starts at offset i.
RECURSIVE RunEnd(_, _)
RunEnd(b, i) == IF isdigit(At(b, i + 1)) THEN RunEnd(b, i + 1) ELSE i

\* "Ignore leading zeroes": while (*p == '0' && p < c) p++.
RECURSIVE SkipZeroes(_, _, _)
SkipZeroes(b, p, c) ==
  IF At(b, p) = 48 /\ p < c THEN SkipZeroes(b, p + 1, c) ELSE p

\* for (; p1 <= c1 && p2 <= c2; p1++, p2++) if (*p1 != *p2) return *p1 - *p2;
\* 0 when the loop ends without returning.
RECURSIVE DigitsDiff(_, _, _, _, _, _)
DigitsDiff(b1, p1, c1, b2, p2, c2) ==
  IF p1 <= c1 /\ p2 <= c2
    THEN IF At(b1, p1) # At(b2, p2) THEN At(b1, p1) - At(b2, p2)
         ELSE DigitsDiff(b1, p1 + 1, c1, b2, p2 + 1, c2)
    ELSE 0

RECURSIVE NaturalBody(_, _, _, _, _)
NaturalTail(b1, i, b2, j, temp_ret) ==
  LET n1 == At(b1, i)
      n2 == At(b2, j)
  IN IF n1 = UNDEF \/ n2 = UNDEF THEN UB
     ELSE IF n1 # 0 /\ n2 # 0 THEN NaturalBody(b1, i, b2, j, temp_ret)
     ELSE IF n1 = n2 THEN temp_ret
     ELSE n1 - n2

NaturalBody(b1, z1, b2, z2, temp_ret) ==
  LET a1 == At(b1, z1)
      a2 == At(b2, z2)
  IN IF a1 = UNDEF \/ a2 = UNDEF THEN UB
     ELSE IF isdigit(a1) /\ isdigit(a2)
       THEN LET c1 == RunEnd(b1, z1)
                c2 == RunEnd(b2, z2)
                p1 == SkipZeroes(b1, z1, c1)
                p2 == SkipZeroes(b2, z2, c2)
                d  == DigitsDiff(b1, p1, c1, b2, p2, c2)
            IN IF c1 - p1 # c2 - p2 THEN (c1 - p1) - (c2 - p2)
               ELSE IF d # 0 THEN d
               ELSE IF c1 - z1 # c2 - z2 THEN (c2 - z2) - (c1 - z1)
               ELSE NaturalTail(b1, c1 + 1, b2, c2 + 1, temp_ret)
     ELSE IF a1 # a2
       THEN IF tolower(a1) = tolower(a2)
              THEN NaturalTail(b1, z1 + 1, b2, z2 + 1,
                               IF temp_ret = 0 THEN a2 - a1 ELSE temp_ret)
              ELSE tolower(a1) - tolower(a2)
       ELSE NaturalTail(b1, z1 + 1, b2, z2 + 1, temp_ret)

\* A natural comparator that treats digits as any other character.
strcmp_natural_bytewise(b1, i, b2, j) == DefaultBody(b1, i, b2, j, 0)

strcmp_natural(b1, i, b2, j) == NaturalBody(b1, i, b2, j, 0)

\* strcmp() of the C library: the difference of the first differing bytes.
RECURSIVE strcmp(_, _, _, _)
strcmp(b1, i, b2, j) ==
  LET c1 == At(b1, i)
      c2 == At(b2, j)
  IN IF c1 = UNDEF \/ c2 = UNDEF THEN UB
     ELSE IF c1 # c2 THEN c1 - c2
     ELSE IF c1 = 0 THEN 0
     ELSE strcmp(b1, i + 1, b2, j + 1)

\* strcoll() of the C library.  The library never calls setlocale(), so the
\* comparison runs in the "C" locale, where strcoll() is strcmp()
\* (README.md:99).
strcoll(b1, i, b2, j) == strcmp(b1, i, b2, j)

\* ------------------------------------------------------------------------
\* Callbacks for qsort() (file_list.c:155-216)
\* ------------------------------------------------------------------------

NULL == <<UNDEF>>

\* strrchr(path, DIR_SEPARATOR): the offset of the last separator, UNDEF
\* (a null pointer) when there is none.
RECURSIVE strrchr_from(_, _)
strrchr_from(path, i) ==
  IF i < 0 THEN UNDEF
  ELSE IF At(path, i) = DIR_SEPARATOR THEN i
  ELSE strrchr_from(path, i - 1)

strrchr_sep(path) == strrchr_from(path, Len(path) - 1)

\* The base comparator a callback hands to qsort_compar.
compar_fn(fn, b1, i, b2, j) ==
  CASE fn = "strcmp_default" -> strcmp_default(b1, i, b2, j)
    [] fn = "strcmp_natural" -> strcmp_natural(b1, i, b2, j)
    [] fn = "strcoll" -> strcoll(b1, i, b2, j)
    [] fn = "strcmp" -> strcmp(b1, i, b2, j)

\* The directory parts are compared with the separator overwritten by NUL,
\* the basenames after it has been restored.
\* A qsort_compar that compares the paths as they are, without separating
\* path and basename parts.
qsort_compar_whole(path1, path2, fn) == compar_fn(fn, path1, 0, path2, 0)

qsort_compar(path1, path2, fn) ==
  LET sep1 == strrchr_sep(path1)
      sep2 == strrchr_sep(path2)
  IN IF sep1 = UNDEF \/ sep2 = UNDEF THEN UB
     ELSE LET cut1 == [path1 EXCEPT ![sep1 + 1] = 0]
              cut2 == [path2 EXCEPT ![sep2 + 1] = 0]
              result == compar_fn(fn, cut1, 0, cut2, 0)
          IN IF result = 0
               THEN compar_fn(fn, path1, sep1 + 1, path2, sep2 + 1)
               ELSE result

qsort_compar_default(p1, p2) == qsort_compar(p1, p2, "strcmp_default")

qsort_compar_natural(p1, p2) == qsort_compar(p1, p2, "strcmp_natural")

qsort_compar_collate(p1, p2) == qsort_compar(p1, p2, "strcoll")

qsort_compar_ascii(p1, p2) == qsort_compar(p1, p2, "strcmp")

FL_SORT_NONE == 0
FL_SORT_DEFAULT == 1
FL_SORT_NATURAL == 2
FL_SORT_COLLATE == 3
FL_SORT_ASCII == 4

SortMethods == {FL_SORT_NONE, FL_SORT_DEFAULT, FL_SORT_NATURAL,
                FL_SORT_COLLATE, FL_SORT_ASCII}

\* The callback is named by a string; "NULL" is the null function pointer.
get_compar_fn(sort_method) ==
  CASE sort_method = FL_SORT_DEFAULT -> "qsort_compar_default"
    [] sort_method = FL_SORT_NATURAL -> "qsort_compar_natural"
    [] sort_method = FL_SORT_COLLATE -> "qsort_compar_collate"
    [] sort_method = FL_SORT_ASCII -> "qsort_compar_ascii"
    [] OTHER -> "NULL"

\* A call through the function pointer.
CallCompar(callback, p1, p2) ==
  CASE callback = "qsort_compar_default" -> qsort_compar_default(p1, p2)
    [] callback = "qsort_compar_natural" -> qsort_compar_natural(p1, p2)
    [] callback = "qsort_compar_collate" -> qsort_compar_collate(p1, p2)
    [] callback = "qsort_compar_ascii" -> qsort_compar_ascii(p1, p2)

\* qsort() of the C library: some arrangement of the array in which no element
\* compares greater than its successor.  The arrangements of the elements at
\* the indices in rest that may follow the element at index last (0: none).
RECURSIVE Arrange(_, _, _, _)
Arrange(arr, callback, rest, last) ==
  IF rest = {} THEN {<<>>}
  ELSE UNION {{<<arr[k]>> \o t : t \in Arrange(arr, callback, rest \ {k}, k)} :
              k \in {k \in rest :
                       \/ last = 0
                       \/ callback = "any"
                       \/ LET r == CallCompar(callback, arr[last], arr[k])
                          IN r # UB /\ r <= 0}}

\* qsort() compares elements at different places of the array.  When a
\* comparison has undefined behaviour, or when the callback is not an order
\* (no arrangement is sorted), the outcome is any arrangement.
qsort(arr, callback) ==
  LET idx == 1..Len(arr)
      undefined == \E i, j \in idx : i # j /\ CallCompar(callback, arr[i], arr[j]) = UB
      sorted == Arrange(arr, callback, idx, 0)
  IN IF undefined \/ sorted = {} THEN Arrange(arr, "any", idx, 0) ELSE sorted

\* ------------------------------------------------------------------------
\* Path helpers (file_list.c:290-358)
\* ------------------------------------------------------------------------

\* create_path() when malloc() succeeds.
create_path(dir, file) ==
  IF At(dir, Len(dir) - 1) = DIR_SEPARATOR
    THEN dir \o file
    ELSE dir \o <<DIR_SEPARATOR>> \o file

\* "Build new string, omitting superflous directory separators."
RECURSIVE CollapseSeparators(_, _, _, _)
CollapseSeparators(directory, i, prev_char_is_separator, clean_dir) ==
  IF i >= Len(directory) THEN clean_dir
  ELSE IF At(directory, i) = DIR_SEPARATOR
    THEN IF prev_char_is_separator
           THEN CollapseSeparators(directory, i + 1, TRUE, clean_dir)
           ELSE CollapseSeparators(directory, i + 1, TRUE,
                                   Append(clean_dir, At(directory, i)))
    ELSE CollapseSeparators(directory, i + 1, FALSE,
                            Append(clean_dir, At(directory, i)))

\* while (clean_dir[--pos] == DIR_SEPARATOR && pos != 0) clean_dir[pos] = 0;
\* pos is the value before the decrement.
RECURSIVE StripTrailing(_, _)
StripTrailing(clean_dir, pos) ==
  IF At(clean_dir, pos - 1) = DIR_SEPARATOR /\ pos - 1 # 0
    THEN StripTrailing(SubSeq(clean_dir, 1, pos - 1), pos - 1)
    ELSE clean_dir

\* create_clean_dir() when malloc() succeeds; NULL for a NULL or empty
\* argument.
create_clean_dir(directory) ==
  IF directory = NULL THEN NULL
  ELSE IF Len(directory) = 0 THEN NULL
  ELSE LET collapsed == CollapseSeparators(directory, 0, FALSE, <<>>)
       IN StripTrailing(collapsed, Len(collapsed))

\* ------------------------------------------------------------------------
\* Types, flags (file_list.h:11-26) and the type lookup array
\* (file_list.c:602-627)
\* ------------------------------------------------------------------------

FL_UNKNOWN == 1
FL_FIFO == 2
FL_CHR == 4
FL_DIR == 8
FL_BLK == 16
FL_REG == 32
FL_LNK == 64
FL_SOCK == 128

FL_FOLLOW_LINKS == 1
FL_DIR_SEP == 2
FL_REGEX_CASE == 4
FL_REGEX_BASIC == 8
FL_XDEV == 16

\* The d_type values of dirent.h, which are also st_mode >> 12 & 017.
DT_UNKNOWN == 0
DT_DIR == 4
DT_REG == 8
DT_LNK == 10

\* value & bit, for a bit that is a power of two.
BitAnd(value, bit) == IF (value \div bit) % 2 = 1 THEN bit ELSE 0

\* A lookup array with the indexes of DT_DIR and DT_REG exchanged.
file_type_arr_swapped(file_type) ==
  IF file_type = 0 THEN [i \in 0..12 |-> 1]
  ELSE [i \in 0..12 |->
          IF \/ i = 0 /\ BitAnd(file_type, FL_UNKNOWN) # 0
             \/ i = 8 /\ BitAnd(file_type, FL_DIR) # 0
             \/ i = 4 /\ BitAnd(file_type, FL_REG) # 0
             \/ i = 10 /\ BitAnd(file_type, FL_LNK) # 0
          THEN 1 ELSE 0]

file_type_arr(file_type) ==
  IF file_type = 0 THEN [i \in 0..12 |-> 1]
  ELSE [i \in 0..12 |->
          IF \/ i = 0 /\ BitAnd(file_type, FL_UNKNOWN) # 0
             \/ i = 1 /\ BitAnd(file_type, FL_FIFO) # 0
             \/ i = 2 /\ BitAnd(file_type, FL_CHR) # 0
             \/ i = 4 /\ BitAnd(file_type, FL_DIR) # 0
             \/ i = 6 /\ BitAnd(file_type, FL_BLK) # 0
             \/ i = 8 /\ BitAnd(file_type, FL_REG) # 0
             \/ i = 10 /\ BitAnd(file_type, FL_LNK) # 0
             \/ i = 12 /\ BitAnd(file_type, FL_SOCK) # 0
          THEN 1 ELSE 0]

\* ------------------------------------------------------------------------
\* Regular expressions (regex.h).  The patterns of the model are made of
\* ordinary characters, "|" and "(": in an extended expression "|" separates
\* alternatives and a "(" without ")" is an error; in a basic expression both
\* are ordinary characters.  A name matches when an alternative occurs in it.
\* ------------------------------------------------------------------------

\* int regex_flags of file_list_create (file_list.c:633-640).
regex_flags(flags) ==
  {"REG_NOSUB"}
    \cup (IF flags # 0 /\ BitAnd(flags, FL_REGEX_BASIC) = 0
            THEN {"REG_EXTENDED"} ELSE {})
    \cup (IF flags # 0 /\ BitAnd(flags, FL_REGEX_CASE) = 0
            THEN {"REG_ICASE"} ELSE {})

\* regcomp(): TRUE when the pattern compiles under cflags.
regcomp_ok(pattern, cflags) ==
  ~ ("REG_EXTENDED" \in cflags /\ \E i \in 1..Len(pattern) : pattern[i] = Code["("])

\* The alternatives of a pattern: its parts between the "|" characters.
RECURSIVE SplitAt(_, _, _)
SplitAt(s, ch, acc) ==
  IF s = <<>> THEN <<acc>>
  ELSE IF Head(s) = ch THEN <<acc>> \o SplitAt(Tail(s), ch, <<>>)
  ELSE SplitAt(Tail(s), ch, Append(acc, Head(s)))

Occurs(alt, name, icase) ==
  \E k \in 0..(Len(name) - Len(alt)) :
    \A i \in 1..Len(alt) :
      IF icase THEN tolower(alt[i]) = tolower(name[k + i])
               ELSE alt[i] = name[k + i]

\* regexec() == 0 for a pattern compiled under cflags.
regexec_ok(pattern, cflags, name) ==
  LET alts == IF "REG_EXTENDED" \in cflags
                THEN SplitAt(pattern, Code["|"], <<>>)
                ELSE <<pattern>>
  IN \E a \in 1..Len(alts) : Occurs(alts[a], name, "REG_ICASE" \in cflags)

matches_regex(file_name, regex) ==
  IF regexec_ok(regex.pattern, regex.cflags, file_name) THEN 1 ELSE 0

\* ------------------------------------------------------------------------
\* The file system the program runs on: the opaque source of
\* (name, type hint) and (device, inode, type) tuples.
\*
\*   R (dev 1, ino 1)  the working directory and the root directory
\*     a1     regular file
\*     B      directory D (dev 1, ino 2)
\*       b      regular file, type hint DT_UNKNOWN
\*       up     symbolic link to R
\*       c      directory E (dev 1, ino 3)
\*         e      regular file
\*         hl     hard link to directory D
\*       m      directory M (dev 2, ino 1), a mounted file system
\*         x      regular file
\*     p      directory P (dev 1, ino 4), not readable
\*       y      regular file
\*     z      symbolic link to a missing file
\* Every directory also holds "." and "..".
\* ------------------------------------------------------------------------

Dot == Str(<<".">>)
DotDot == Str(<<".", ".">>)

Entry(name, d_type, node) == [d_name |-> Str(name), d_type |-> d_type, node |-> node]

Dir(dev, ino, readable, parent, self, entries) ==
  [st_dev |-> dev, st_ino |-> ino, type |-> DT_DIR, readable |-> readable,
   target |-> "",
   entries |-> <<Entry(<<".">>, DT_DIR, self), Entry(<<".", ".">>, DT_DIR, parent)>>
                 \o entries]

File(dev, ino) ==
  [st_dev |-> dev, st_ino |-> ino, type |-> DT_REG, readable |-> TRUE,
   target |-> "", entries |-> <<>>]

Link(dev, ino, target) ==
  [st_dev |-> dev, st_ino |-> ino, type |-> DT_LNK, readable |-> TRUE,
   target |-> target, entries |-> <<>>]

FS ==
  [n \in {"R", "D", "E", "M", "P", "F", "G", "Lup", "Lz"} |->
     CASE n = "R" -> Dir(1, 1, TRUE, "R", "R",
                         <<Entry(<<"a", "1">>, DT_REG, "F"),
                           Entry(<<"B">>, DT_DIR, "D"),
                           Entry(<<"p">>, DT_DIR, "P"),
                           Entry(<<"z">>, DT_LNK, "Lz")>>)
       [] n = "D" -> Dir(1, 2, TRUE, "R", "D",
                         <<Entry(<<"b">>, DT_UNKNOWN, "F"),
                           Entry(<<"u", "p">>, DT_LNK, "Lup"),
                           Entry(<<"c">>, DT_DIR, "E"),
                           Entry(<<"m">>, DT_DIR, "M")>>)
       [] n = "E" -> Dir(1, 3, TRUE, "D", "E",
                         <<Entry(<<"e">>, DT_REG, "F"),
                           Entry(<<"h", "l">>, DT_DIR, "D")>>)
       [] n = "M" -> Dir(2, 1, TRUE, "D", "M",
                         <<Entry(<<"x">>, DT_REG, "G")>>)
       [] n = "P" -> Dir(1, 4, FALSE, "R", "P",
                         <<Entry(<<"y">>, DT_REG, "F")>>)
       [] n = "F" -> File(1, 7)
       [] n = "G" -> File(2, 7)
       [] n = "Lup" -> Link(1, 8, "R")
       [] n = "Lz" -> Link(1, 9, "")]

\* The file system is part of the state; no step of the program changes it.
VARIABLE fs

\* The node a symbolic link leads to ("" when its target is missing); the
\* links of this file system lead to files that are no links.
Resolve(node) ==
  IF node = "" THEN ""
  ELSE IF fs[node].type = DT_LNK THEN fs[node].target
  ELSE node

\* The components of a path: its parts between separators, empty ones dropped.
Components(path) ==
  LET parts == SplitAt(path, DIR_SEPARATOR, <<>>)
  IN SelectSeq(parts, LAMBDA c : c # <<>>)

\* The node that name leads to from directory node ("" when there is none).
Child(node, name) ==
  IF node = "" THEN ""
  ELSE LET d == Resolve(node)
       IN IF d = "" THEN ""
          ELSE IF \E i \in 1..Len(fs[d].entries) : fs[d].entries[i].d_name = name
            THEN fs[d].entries[CHOOSE i \in 1..Len(fs[d].entries) :
                                 fs[d].entries[i].d_name = name].node
            ELSE ""

\* Path resolution from the working directory R (also the root directory),
\* the last component not followed when it is a symbolic link.
RECURSIVE Walk(_, _)
Walk(node, comps) ==
  IF comps = <<>> THEN node
  ELSE CHOOSE found \in {Walk(next, Tail(comps)) :
                           next \in {Child(node, Head(comps))}} : TRUE

Lookup(path) ==
  CHOOSE found \in {Walk("R", comps) :
                      comps \in {Components(p) : p \in {path}}} : TRUE

\* lstat() and stat(): the node whose attributes are returned, "" on failure.
lstat(path) == Lookup(path)

stat(path) == Resolve(Lookup(path))

\* ------------------------------------------------------------------------
\* State
\* ------------------------------------------------------------------------

VARIABLES
  pc,                 \* position: "call", "scan", "finish", "done", "destroyed"
  args,               \* the arguments of file_list_create
  fl_ptr,             \* *file_list: "uninit", "null", "alloc" or "freed" (dangling)
  fl_term,            \* whether the array ends with a NULL pointer
  file_list,          \* the paths stored in the array, in order
  file_list_size,     \* size_t file_list_size
  file_list_size_max, \* size_t file_list_size_max
  regex,              \* the compiled pattern, if any
  start_dir,          \* char *start_dir
  stack,              \* struct stat_stack: the stat buffers array[0..top]
  stack_size,         \* stack.size
  frames,             \* the active calls of parse_file_tree, outermost first
  parse_ret,          \* the value parse_file_tree returned to file_list_create
  ret,                \* the value file_list_create returned
  errno,
  dirs_open,          \* directory handles opened and not yet closed
  paths_live,         \* path strings allocated and not yet freed
  event,              \* what the last step did
  ub,                 \* undefined behaviour has been executed
  full_at             \* history: the number of active calls of parse_file_tree
                      \* when file_list_add reported E2BIG (0: it never did)

cvars == <<pc, args, fl_ptr, fl_term, file_list, file_list_size,
           file_list_size_max, regex, start_dir, stack, stack_size, frames,
           parse_ret, ret, errno, dirs_open, paths_live, event, ub, full_at,
           fs>>

\* The state of a call of file_list_merge.
VARIABLES
  mpc,                \* position: "idle", "call", "done", "destroyed"
  destination,        \* *destination: [ptr, arr], arr with its NULL terminator
  source,             \* *source, likewise
  n_dest,             \* size_t n_dest
  n_source,           \* size_t n_source
  merge_method,       \* enum FL_SORT_METHOD sort_method
  merge_ret,          \* the value file_list_merge returned
  merge_errno

mvars == <<mpc, destination, source, n_dest, n_source, merge_method, merge_ret,
           merge_errno>>

\* The state of a caller that compares strings and sorts lists of them.
VARIABLES
  cmp_pc,             \* position: "idle", "call", "compared", "sorted", "resorted"
  cmp_fn,             \* the base comparator used
  s1,                 \* const char *s1
  s2,                 \* const char *s2
  cmp_ret,            \* the value of the comparator for (s1, s2)
  cmp_rev,            \* the value of the comparator for (s2, s1)
  sort_list,          \* the array qsort() was called on, as it left it
  sort_prev           \* the array before the last call of qsort()

kvars == <<cmp_pc, cmp_fn, s1, s2, cmp_ret, cmp_rev, sort_list, sort_prev>>

\* What a caller that calls file_list_create a second time keeps of the
\* first call: its depth argument and the paths it returned.
VARIABLE previous

hvars == <<previous>>

vars == <<cvars, mvars, kvars, hvars>>

STAT_STACK_INITIAL_SIZE == StatStackInitialSize + 0

\* ------------------------------------------------------------------------
\* Stat stack (file_list.c:218-286).  The model keeps array[0..top] as a
\* sequence of the stat buffers pointed to: top is Len - 1.
\* ------------------------------------------------------------------------

StatBuf(node) == [st_dev |-> fs[node].st_dev, st_ino |-> fs[node].st_ino]

\* The stat buffer of an entry that was never stat'ed.
Uninitialized == [st_dev |-> UNDEF, st_ino |-> UNDEF]

\* stat_stack_push: the possible (return value, array, size) results.
stat_stack_push(array, size, sb) ==
  IF Len(array) = size
    THEN {[ret |-> 0 - 1, array |-> array, size |-> size],
          [ret |-> 0, array |-> Append(array, sb), size |-> size * 2]}
    ELSE {[ret |-> 0, array |-> Append(array, sb), size |-> size]}

\* A stat_stack_pop that leaves top as it is.
stat_stack_pop_nothing(array) == array

stat_stack_pop(array) == SubSeq(array, 1, Len(array) - 1)

\* The comparison of file_list.c:513 with == in place of !=.
other_device_inverted(array, sb) == array[1].st_dev = sb.st_dev

\* stack->array[0]->st_dev != sb.st_dev (file_list.c:513)
other_device(array, sb) == array[1].st_dev # sb.st_dev

\* An is_directory_loop that compares inode numbers with the directory
\* being left only, not with every ancestor.
is_directory_loop_parent_only(array, sb) ==
  IF array[Len(array)].st_ino = sb.st_ino /\ array[Len(array)].st_dev = sb.st_dev
    THEN 1 ELSE 0

is_directory_loop(array, sb) ==
  IF \E i \in 1..Len(array) :
       array[i].st_ino = sb.st_ino /\ array[i].st_dev = sb.st_dev
    THEN 1 ELSE 0

\* ------------------------------------------------------------------------
\* file_list_add (file_list.c:364-400): the possible results of adding path
\* to the array arr holding size elements with room for max_size.
\* ------------------------------------------------------------------------

\* A file_list_add that gives up whenever the array is full instead of
\* growing it up to FL_MAX_LIST_SIZE.
file_list_add_no_growth(arr, size, max_size, path) ==
  IF size = max_size
    THEN {[ret |-> 0 - 1, errno |-> "E2BIG", arr |-> arr, size |-> size,
           max_size |-> max_size]}
    ELSE {[ret |-> 0, errno |-> "", arr |-> Append(arr, path),
           size |-> size + 1, max_size |-> max_size]}

\* A file_list_add that doubles the capacity without clamping it to
\* FL_MAX_LIST_SIZE.
file_list_add_unclamped(arr, size, max_size, path) ==
  IF size = max_size
    THEN IF size = FL_MAX_LIST_SIZE
           THEN {[ret |-> 0 - 1, errno |-> "E2BIG", arr |-> arr, size |-> size,
                  max_size |-> max_size]}
           ELSE {[ret |-> 0 - 1, errno |-> "ENOMEM", arr |-> arr,
                  size |-> size, max_size |-> max_size * 2],
                 [ret |-> 0, errno |-> "", arr |-> Append(arr, path),
                  size |-> size + 1, max_size |-> max_size * 2]}
    ELSE {[ret |-> 0, errno |-> "", arr |-> Append(arr, path),
           size |-> size + 1, max_size |-> max_size]}

file_list_add(arr, size, max_size, path) ==
  IF size = max_size
    THEN IF size = FL_MAX_LIST_SIZE
           THEN {[ret |-> 0 - 1, errno |-> "E2BIG", arr |-> arr, size |-> size,
                  max_size |-> max_size]}
           ELSE LET new_size == max_size * 2
                    grown == IF new_size > FL_MAX_LIST_SIZE
                               THEN FL_MAX_LIST_SIZE ELSE new_size
                IN {[ret |-> 0 - 1, errno |-> "ENOMEM", arr |-> arr,
                     size |-> size, max_size |-> grown],
                    [ret |-> 0, errno |-> "", arr |-> Append(arr, path),
                     size |-> size + 1, max_size |-> grown]}
    ELSE {[ret |-> 0, errno |-> "", arr |-> Append(arr, path),
           size |-> size + 1, max_size |-> max_size]}

\* ------------------------------------------------------------------------
\* parse_file_tree (file_list.c:423-587).  One step is one opendir(), one
\* pass through the readdir() loop, or one return.  The functions below map
\* the traversal state t (a record of the variables a step may change) to the
\* set of states the step can leave, one for each outcome of the allocations
\* and system calls in it.
\* ------------------------------------------------------------------------

Flag(bit) == BitAnd(args.flags, bit) # 0

\* A call that starts with one level more than it was given.
NewFrame_one_more(directory, directory_depth) ==
  [directory |-> directory,
   directory_depth |-> IF directory_depth >= 0 THEN directory_depth + 1
                       ELSE directory_depth,
   opened |-> FALSE, pos |-> 1, pending |-> FALSE, current_type |-> DT_UNKNOWN]

NewFrame(directory, directory_depth) ==
  [directory |-> directory, directory_depth |-> directory_depth,
   opened |-> FALSE, pos |-> 1, pending |-> FALSE, current_type |-> DT_UNKNOWN]

\* The directory stream of a frame: what readdir() returns, in order.
DirNode(fr) == Resolve(Lookup(fr.directory))

Entries(fr) == fs[DirNode(fr)].entries

Traversal ==
  [frames |-> frames, stack |-> stack, stack_size |-> stack_size,
   file_list |-> file_list, file_list_size |-> file_list_size,
   file_list_size_max |-> file_list_size_max, errno |-> errno,
   dirs_open |-> dirs_open, paths_live |-> paths_live, pc |-> pc,
   parse_ret |-> parse_ret, event |-> event, full_at |-> full_at]

\* The directories the calls frs hold open, and the paths they hold.
OpenCount(frs) == Cardinality({i \in 1..Len(frs) : frs[i].opened})

PendingCount(frs) == Cardinality({i \in 1..Len(frs) : frs[i].pending})

\* return -1 from the innermost call and from every caller in turn: each
\* caller frees its current_path and closes its directory
\* (file_list.c:531-535).  have_path: the innermost call holds a
\* current_path, which it frees.  ev says which step failed, and how.
Fail(t, have_path, err, ev) ==
  [t EXCEPT !.frames = <<>>,
            !.dirs_open = @ - OpenCount(t.frames),
            !.paths_live = @ - PendingCount(SubSeq(t.frames, 1, Len(t.frames) - 1))
                             - (IF have_path THEN 1 ELSE 0),
            !.errno = err, !.pc = "finish", !.parse_ret = 0 - 1, !.event = ev,
            !.full_at = IF err = "E2BIG" THEN Len(t.frames) ELSE @]

\* continue: the innermost call goes on to its next directory entry.
Continue(t, ev) ==
  [t EXCEPT !.frames[Len(t.frames)].pos = @ + 1,
            !.frames[Len(t.frames)].pending = FALSE,
            !.event = ev]

\* "Add file name to file list" (file_list.c:541-580) for the entry at pos of
\* the innermost frame, of type current_type; have_path: current_path is not
\* NULL (and is counted in paths_live).
Collect(t, have_path, current_type, via) ==
  LET fr == t.frames[Len(t.frames)]
      dp == Entries(fr)[fr.pos]
      held == IF have_path THEN 1 ELSE 0
      joined == create_path(fr.directory, dp.d_name)
      current_path == IF current_type = 4 /\ Flag(FL_DIR_SEP)
                        THEN Append(joined, DIR_SEPARATOR) ELSE joined
  IN IF file_type_arr(args.file_type)[current_type] = 1
       THEN IF regex.set /\ matches_regex(dp.d_name, regex) = 0
              THEN {Continue([t EXCEPT !.paths_live = @ - held], <<via, "no_match">>)}
              ELSE (IF have_path THEN {} ELSE {Fail(t, FALSE, "ENOMEM", <<via, "enomem">>)})
                   \cup (IF current_type = 4 /\ Flag(FL_DIR_SEP)
                           THEN {Fail(t, have_path, "ENOMEM", <<via, "enomem">>)} ELSE {})
                   \cup {IF r.ret = 0
                           THEN Continue(
                                  [t EXCEPT !.file_list = r.arr,
                                            !.file_list_size = r.size,
                                            !.file_list_size_max = r.max_size,
                                            !.paths_live = @ + 1 - held],
                                  <<via, "added">>)
                           ELSE Fail([t EXCEPT !.file_list_size_max = r.max_size],
                                     have_path, r.errno,
                                     <<via, IF r.errno = "E2BIG" THEN "e2big"
                                                                      ELSE "enomem">>)
                         : r \in file_list_add(t.file_list, t.file_list_size,
                                               t.file_list_size_max, current_path)}
       ELSE {Continue([t EXCEPT !.paths_live = @ - held], <<via, "type_off">>)}

\* "Traverse next directory" (file_list.c:500-539) and what follows it, for
\* an entry of type current_type with stat buffer sb.
Recurse(t, have_path, current_type, sb) ==
  LET n == Len(t.frames)
      fr == t.frames[n]
      dp == Entries(fr)[fr.pos]
      held == IF have_path THEN 1 ELSE 0
  IN IF fr.directory_depth # 0 /\ current_type = 4
       THEN IF is_directory_loop(t.stack, sb) = 1
              THEN {Continue([t EXCEPT !.paths_live = @ - held], <<"entry", "loop">>)}
            ELSE IF Flag(FL_XDEV) /\ other_device(t.stack, sb)
              THEN Collect(t, have_path, current_type, "xdev")
            ELSE {IF p.ret # 0
                    THEN Fail(t, have_path, "ENOMEM", <<"entry", "enomem">>)
                    ELSE [t EXCEPT
                            !.stack = p.array, !.stack_size = p.size,
                            !.frames = Append(
                               [t.frames EXCEPT ![n].pending = TRUE,
                                                ![n].current_type = current_type],
                               NewFrame(create_path(fr.directory, dp.d_name),
                                        IF fr.directory_depth > 0
                                          THEN fr.directory_depth - 1
                                          ELSE fr.directory_depth)),
                            !.event = <<"entry", "descend">>]
                  : p \in stat_stack_push(t.stack, t.stack_size, sb)}
       ELSE Collect(t, have_path, current_type, "entry")

\* One pass through the body of the readdir() loop, up to the recursive call.
ReadEntryOutcomes(t) ==
  LET fr == t.frames[Len(t.frames)]
      dp == Entries(fr)[fr.pos]
      current_path == create_path(fr.directory, dp.d_name)
      node == IF Flag(FL_FOLLOW_LINKS) THEN stat(current_path)
                                       ELSE lstat(current_path)
  IN IF dp.d_name = Dot \/ dp.d_name = DotDot
       THEN {Continue(t, <<"entry", "dot">>)}
     ELSE IF \/ dp.d_type = DT_DIR
             \/ dp.d_type = DT_UNKNOWN
             \/ dp.d_type = DT_LNK /\ Flag(FL_FOLLOW_LINKS)
       THEN {Fail(t, FALSE, "ENOMEM", <<"entry", "enomem">>)}
            \cup (IF node = ""
                    THEN {Continue([t EXCEPT !.errno = "ENOENT"],
                                   <<"entry", "stat_failed">>)}
                    ELSE Recurse([t EXCEPT !.paths_live = @ + 1], TRUE,
                                 fs[node].type, StatBuf(node)))
     ELSE Recurse(t, FALSE, dp.d_type, Uninitialized)

\* return 0 from the innermost call: file_list_create goes on after the
\* outermost one; a caller pops the stat stack and adds the directory it
\* descended into (file_list.c:537-580).
ReturnOutcomes(t, via) ==
  LET n == Len(t.frames)
  IN IF n = 1
       THEN {[t EXCEPT !.frames = <<>>, !.pc = "finish", !.parse_ret = 0,
                       !.event = <<via, "finished">>]}
       ELSE Collect([t EXCEPT !.frames = SubSeq(t.frames, 1, n - 1),
                              !.stack = stat_stack_pop(t.stack)],
                    TRUE, t.frames[n - 1].current_type, via)

\* An opendir() failure handling that treats EACCES as any other error.
OpendirOutcomes_no_exception(t) ==
  LET n == Len(t.frames)
      node == DirNode(t.frames[n])
  IN {Fail(t, FALSE, "ENFILE", <<"opendir", "failed">>)}
     \cup (IF node = "" THEN {Fail(t, FALSE, "ENOENT", <<"opendir", "failed">>)}
           ELSE IF fs[node].type # DT_DIR
             THEN {Fail(t, FALSE, "ENOTDIR", <<"opendir", "failed">>)}
           ELSE IF ~ fs[node].readable
             THEN {Fail(t, FALSE, "EACCES", <<"opendir", "failed">>)}
           ELSE {[t EXCEPT !.frames[n].opened = TRUE, !.dirs_open = @ + 1,
                           !.event = <<"opendir", "opened">>]})

\* opendir() and its failure handling (file_list.c:443-452).  Besides the
\* errors the file system decides, opendir() can fail for lack of resources.
OpendirOutcomes(t) ==
  LET n == Len(t.frames)
      node == DirNode(t.frames[n])
  IN {Fail(t, FALSE, "ENFILE", <<"opendir", "failed">>)}
     \cup (IF node = "" THEN {Fail(t, FALSE, "ENOENT", <<"opendir", "failed">>)}
           ELSE IF fs[node].type # DT_DIR
             THEN {Fail(t, FALSE, "ENOTDIR", <<"opendir", "failed">>)}
           ELSE IF ~ fs[node].readable
             THEN ReturnOutcomes([t EXCEPT !.errno = "EACCES"], "denied")
           ELSE {[t EXCEPT !.frames[n].opened = TRUE, !.dirs_open = @ + 1,
                           !.event = <<"opendir", "opened">>]})

\* closedir(dir); return 0; after readdir() returned NULL.
CloseOutcomes(t) == ReturnOutcomes([t EXCEPT !.dirs_open = @ - 1], "returned")

SetTraversal(t) ==
  /\ frames' = t.frames
  /\ stack' = t.stack
  /\ stack_size' = t.stack_size
  /\ file_list' = t.file_list
  /\ file_list_size' = t.file_list_size
  /\ file_list_size_max' = t.file_list_size_max
  /\ errno' = t.errno
  /\ dirs_open' = t.dirs_open
  /\ paths_live' = t.paths_live
  /\ pc' = t.pc
  /\ parse_ret' = t.parse_ret
  /\ event' = t.event
  /\ full_at' = t.full_at
  /\ UNCHANGED <<args, fl_ptr, fl_term, regex, start_dir, ret, ub, fs>>
  /\ UNCHANGED <<mvars, kvars, hvars>>

Top == frames[Len(frames)]

Opendir ==
  /\ pc = "scan"
  /\ ~ Top.opened
  /\ \E t \in OpendirOutcomes(Traversal) : SetTraversal(t)

ReadEntry ==
  /\ pc = "scan"
  /\ Top.opened
  /\ Top.pos <= Len(Entries(Top))
  /\ \E t \in ReadEntryOutcomes(Traversal) : SetTraversal(t)

CloseDir ==
  /\ pc = "scan"
  /\ Top.opened
  /\ Top.pos > Len(Entries(Top))
  /\ \E t \in CloseOutcomes(Traversal) : SetTraversal(t)

\* ------------------------------------------------------------------------
\* file_list_create (file_list.c:591-711)
\* ------------------------------------------------------------------------

\* The arguments the model calls file_list_create with.
Dirs ==
  {NULL, <<>>, Str(<<".">>), Str(<<"/", "/">>), Str(<<".", "/", "/", "B", "/", "/">>),
   Str(<<".", "/", "n">>), Str(<<".", "/", "a", "1">>), Str(<<".", "/", "p">>)}

FileTypes == {0, FL_REG, FL_DIR, FL_REG + FL_LNK}

Patterns == {NULL, Str(<<"b">>), Str(<<"a", "|", "c">>), Str(<<"(">>)}

Depths == (0 - 1)..MaxDepthArg

AllFlags == 0..(2 * FL_XDEV - 1)

NoRegex == [set |-> FALSE, pattern |-> <<>>, cflags |-> {}]

\* No call of file_list_merge is under way.
NullHandle == [ptr |-> "null", arr |-> <<>>]

MergeIdle ==
  /\ mpc = "idle"
  /\ destination = NullHandle
  /\ source = NullHandle
  /\ n_dest = 0
  /\ n_source = 0
  /\ merge_method = FL_SORT_NONE
  /\ merge_ret = 0
  /\ merge_errno = "0"

\* file_list_create has not been called before.
NoPrevious == [depth |-> 0 - 2, paths |-> {}]

\* No string comparison is under way.
CompareIdle ==
  /\ cmp_pc = "idle"
  /\ cmp_fn = "strcmp"
  /\ s1 = <<>>
  /\ s2 = <<>>
  /\ cmp_ret = 0
  /\ cmp_rev = 0
  /\ sort_list = <<>>
  /\ sort_prev = <<>>

\* The variables of file_list_create before the call with arguments a.
CreateState(position, a) ==
  /\ pc = position
  /\ args = a
  /\ fl_ptr = "uninit"
  /\ fl_term = FALSE
  /\ file_list = <<>>
  /\ file_list_size = 0
  /\ file_list_size_max = 0
  /\ regex = NoRegex
  /\ start_dir = NULL
  /\ stack = <<>>
  /\ stack_size = 0
  /\ frames = <<>>
  /\ parse_ret = 0
  /\ ret = 0
  /\ errno = "0"
  /\ dirs_open = 0
  /\ paths_live = 0
  /\ event = <<"call", "none">>
  /\ ub = FALSE
  /\ full_at = 0
  /\ fs = FS

Arguments ==
  [dir : Dirs, file_type : FileTypes, regex_pattern : Patterns,
   depth : Depths, flags : AllFlags, sort_method : SortMethods]

Init ==
  /\ \E a \in Arguments : CreateState("call", a)
  /\ MergeIdle
  /\ CompareIdle
  /\ previous = NoPrevious

\* An early return -1: *file_list has been freed (or never allocated) and the
\* list variables are left as they are.
EarlyReturn(ptr, err, ev) ==
  /\ fl_ptr' = ptr
  /\ ret' = 0 - 1
  /\ errno' = err
  /\ pc' = "done"
  /\ event' = <<"enter", ev>>
  /\ UNCHANGED <<args, fl_term, file_list, file_list_size, file_list_size_max,
                 regex, start_dir, stack, stack_size, frames, parse_ret,
                 dirs_open, paths_live, ub, full_at, fs>>

\* file_list.c:595-679: everything before the call of parse_file_tree.  fail
\* names the allocation that fails, if one does.
Enter ==
  /\ pc = "call"
  /\ UNCHANGED <<mvars, kvars, hvars>>
  /\ \E fail \in {"none", "file_list", "regcomp", "clean_dir", "stat_stack"} :
       LET cflags == regex_flags(args.flags)
           clean_dir == IF fail = "clean_dir" THEN NULL
                        ELSE create_clean_dir(args.dir)
           sb == stat(args.dir)
       IN IF fail = "file_list"
            THEN EarlyReturn("null", "ENOMEM", "enomem")
          ELSE IF /\ args.regex_pattern # NULL
                  /\ \/ fail = "regcomp"
                     \/ ~ regcomp_ok(args.regex_pattern, cflags)
            THEN EarlyReturn("freed", errno, "regcomp_failed")
          ELSE IF clean_dir = NULL
            THEN EarlyReturn("freed", IF fail = "clean_dir" THEN "ENOMEM" ELSE errno,
                             "no_start_dir")
          ELSE IF fail = "stat_stack"
            THEN EarlyReturn("freed", "ENOMEM", "enomem")
          ELSE IF sb = ""
            THEN EarlyReturn("freed", "ENOENT", "stat_failed")
          ELSE /\ fl_ptr' = "alloc"
               /\ file_list_size' = 0
               /\ file_list_size_max' = FL_INITIAL_LIST_SIZE
               /\ regex' = IF args.regex_pattern # NULL
                             THEN [set |-> TRUE, pattern |-> args.regex_pattern,
                                   cflags |-> cflags]
                             ELSE NoRegex
               /\ start_dir' = clean_dir
               /\ stack' = <<StatBuf(sb)>>
               /\ stack_size' = STAT_STACK_INITIAL_SIZE
               /\ frames' = <<NewFrame(clean_dir, args.depth)>>
               /\ pc' = "scan"
               /\ event' = <<"enter", "ok">>
               /\ UNCHANGED <<args, fl_term, file_list, parse_ret, ret, errno,
                              dirs_open, paths_live, ub, full_at, fs>>

\* file_list.c:685-711: everything after the call of parse_file_tree.
Finish ==
  /\ pc = "finish"
  /\ pc' = "done"
  /\ UNCHANGED <<args, file_list_size, file_list_size_max, regex, start_dir,
                 stack, stack_size, frames, parse_ret, dirs_open, ub, full_at,
                 fs>>
  /\ UNCHANGED <<mvars, kvars, hvars>>
  /\ IF parse_ret # 0 /\ errno # "E2BIG"
       THEN /\ paths_live' = paths_live - file_list_size
            /\ file_list' = <<>>
            /\ fl_ptr' = "null"
            /\ ret' = 0 - 1
            /\ event' = <<"finish", "discarded">>
            /\ UNCHANGED <<fl_term, errno>>
       ELSE \/ /\ ret' = 0 - 1
               /\ errno' = "ENOMEM"
               /\ event' = <<"finish", "enomem">>
               /\ UNCHANGED <<file_list, fl_ptr, fl_term, paths_live>>
            \/ /\ fl_term' = TRUE
               /\ file_list' \in
                    IF get_compar_fn(args.sort_method) # "NULL"
                      THEN qsort(file_list, get_compar_fn(args.sort_method))
                      ELSE {file_list}
               /\ ret' = file_list_size
               /\ event' = <<"finish", "ok">>
               /\ UNCHANGED <<fl_ptr, errno, paths_live>>

\* ------------------------------------------------------------------------
\* file_list_destroy (file_list.c:713-723), called by the caller after
\* file_list_create has returned.
\* ------------------------------------------------------------------------

Destroy ==
  /\ pc = "done"
  /\ pc' = "destroyed"
  /\ event' = <<"destroy", fl_ptr>>
  /\ UNCHANGED <<args, file_list_size, file_list_size_max, regex, start_dir,
                 stack, stack_size, frames, parse_ret, ret, errno, dirs_open,
                 fl_term, full_at, fs>>
  /\ UNCHANGED <<mvars, kvars, hvars>>
  /\ IF fl_ptr = "null"
       THEN UNCHANGED <<fl_ptr, file_list, paths_live, ub>>
     ELSE IF fl_ptr = "alloc" /\ fl_term
       THEN /\ paths_live' = paths_live - Len(file_list)
            /\ file_list' = <<>>
            /\ fl_ptr' = "null"
            /\ UNCHANGED ub
     ELSE \* the array was freed, or has no NULL at its end
          /\ ub' = TRUE
          /\ UNCHANGED <<fl_ptr, file_list, paths_live>>

\* ------------------------------------------------------------------------
\* file_list_merge (file_list.c:725-769).  A list is the array its handle
\* points to: the paths followed by the terminating NULL pointer.
\* ------------------------------------------------------------------------

\* while (*file_list++ != NULL) n++;
RECURSIVE GetSizeFrom(_, _)
GetSizeFrom(file_list_arr, n) ==
  IF n >= Len(file_list_arr) THEN UNDEF
  ELSE IF file_list_arr[n + 1] = NULL THEN n
  ELSE GetSizeFrom(file_list_arr, n + 1)

\* A file_list_getsize that counts the terminating NULL pointer too.
file_list_getsize_with_null(file_list_arr) == GetSizeFrom(file_list_arr, 0) + 1

file_list_getsize(file_list_arr) == GetSizeFrom(file_list_arr, 0)

\* The lists the model merges: every sequence of at most MaxMergeLen of these
\* paths, and size hints that do not exceed a list's length (0: unspecified).
MergePaths ==
  {Str(<<".", "/", "B">>), Str(<<".", "/", "a", "1", "0">>),
   Str(<<".", "/", "a", "9">>)}

MergeLists == UNION {[1..n -> MergePaths] : n \in 0..MaxMergeLen}

Handle(list) == [ptr |-> "alloc", arr |-> list \o <<NULL>>]

InitMerge ==
  /\ CreateState("idle", [dir |-> NULL, file_type |-> 0, regex_pattern |-> NULL,
                          depth |-> 0, flags |-> 0, sort_method |-> FL_SORT_NONE])
  /\ mpc = "call"
  /\ \E a, b \in MergeLists :
       /\ destination = Handle(a)
       /\ source = Handle(b)
       /\ n_dest \in 0..Len(a)
       /\ n_source \in 0..Len(b)
  /\ merge_method \in SortMethods
  /\ merge_ret = 0
  /\ merge_errno = "0"
  /\ CompareIdle
  /\ previous = NoPrevious

\* The whole of file_list_merge.  The overflow check of line 749 cannot
\* fail for lists of these sizes.
file_list_merge ==
  /\ mpc = "call"
  /\ mpc' = "done"
  /\ UNCHANGED <<n_dest, n_source, merge_method>>
  /\ UNCHANGED <<cvars, kvars, hvars>>
  /\ LET nd == IF n_dest = 0 THEN file_list_getsize(destination.arr) ELSE n_dest
         ns == IF n_source = 0 THEN file_list_getsize(source.arr) ELSE n_source
         n == nd + ns
         joined == SubSeq(destination.arr, 1, nd) \o SubSeq(source.arr, 1, ns)
     IN \/ /\ merge_ret' = 0 - 1             \* realloc() returned NULL
           /\ merge_errno' = "ENOMEM"
           /\ UNCHANGED <<destination, source>>
        \/ /\ \E sorted \in IF get_compar_fn(merge_method) # "NULL"
                               THEN qsort(joined, "qsort_compar_default")
                               ELSE {joined} :
                destination' = [ptr |-> "alloc", arr |-> sorted \o <<NULL>>]
           /\ source' = NullHandle
           /\ merge_ret' = n
           /\ UNCHANGED merge_errno

\* The caller destroys both lists: file_list_destroy (file_list.c:714-723)
\* for each handle, a no-op for a NULL one.
DestroyMerged ==
  /\ mpc = "done"
  /\ mpc' = "destroyed"
  /\ destination' = NullHandle
  /\ source' = NullHandle
  /\ UNCHANGED <<n_dest, n_source, merge_method, merge_ret, merge_errno>>
  /\ UNCHANGED <<cvars, kvars, hvars>>

\* ------------------------------------------------------------------------
\* The comparators at work: a base comparator is called on two strings, in
\* both orders, as qsort_compar calls it (file_list.c:169-175); then qsort()
\* is called with the callback of that comparator, as file_list_create calls
\* it (file_list.c:706-708), on the paths of three entries of one directory,
\* and once more on the array it left.
\* ------------------------------------------------------------------------

StrAlphabet == {Code["0"], Code["1"], Code["a"], Code["A"]}

\* The strings compared: all of at most MaxStrLen characters, the empty one
\* included (the basename of a path that ends with the separator).
Strings == UNION {[1..n -> StrAlphabet] : n \in 0..MaxStrLen}

\* The third entry of the directory whose paths are sorted.
ThirdStrings == UNION {[1..n -> StrAlphabet] : n \in 0..MaxThirdLen}

BaseComparators == {"strcmp_default", "strcmp_natural", "strcoll", "strcmp"}

\* The qsort() callback that hands a base comparator to qsort_compar.
CallbackOf(fn) ==
  CASE fn = "strcmp_default" -> "qsort_compar_default"
    [] fn = "strcmp_natural" -> "qsort_compar_natural"
    [] fn = "strcoll" -> "qsort_compar_collate"
    [] fn = "strcmp" -> "qsort_compar_ascii"

InitCompare ==
  /\ CreateState("idle", [dir |-> NULL, file_type |-> 0, regex_pattern |-> NULL,
                          depth |-> 0, flags |-> 0, sort_method |-> FL_SORT_NONE])
  /\ MergeIdle
  /\ cmp_pc = "call"
  /\ cmp_fn \in BaseComparators
  /\ s1 \in Strings
  /\ s2 \in Strings
  /\ cmp_ret = 0
  /\ cmp_rev = 0
  /\ sort_list = <<>>
  /\ sort_prev = <<>>
  /\ previous = NoPrevious

Compare ==
  /\ cmp_pc = "call"
  /\ cmp_pc' = "compared"
  /\ cmp_ret' = compar_fn(cmp_fn, s1, 0, s2, 0)
  /\ cmp_rev' = compar_fn(cmp_fn, s2, 0, s1, 0)
  /\ UNCHANGED <<cmp_fn, s1, s2, sort_list, sort_prev>>
  /\ UNCHANGED <<cvars, mvars, hvars>>

Sort ==
  /\ cmp_pc = "compared"
  /\ cmp_pc' = "sorted"
  /\ \E s3 \in ThirdStrings :
       sort_list' \in qsort(<<create_path(Dot, s1), create_path(Dot, s2),
                              create_path(Dot, s3)>>, CallbackOf(cmp_fn))
  /\ UNCHANGED <<cmp_fn, s1, s2, cmp_ret, cmp_rev, sort_prev>>
  /\ UNCHANGED <<cvars, mvars, hvars>>

SortAgain ==
  /\ cmp_pc = "sorted"
  /\ cmp_pc' = "resorted"
  /\ sort_prev' = sort_list
  /\ sort_list' \in qsort(sort_list, CallbackOf(cmp_fn))
  /\ UNCHANGED <<cmp_fn, s1, s2, cmp_ret, cmp_rev>>
  /\ UNCHANGED <<cvars, mvars, hvars>>

\* ------------------------------------------------------------------------
\* A caller that, after file_list_create has returned a complete list, calls
\* it again (file_list.c:591) with a greater depth, or unlimited depth, and
\* otherwise the same arguments, on the same file system.
\* ------------------------------------------------------------------------

\* Calls from the working directory or from ./B, of every type of entry or
\* of directories only, with every combination of flags.
DepthArguments ==
  [dir : {Str(<<".">>), Str(<<".", "/", "/", "B", "/", "/">>)},
   file_type : {0, FL_DIR}, regex_pattern : {NULL},
   depth : 0..MaxDepthArg, flags : AllFlags, sort_method : {FL_SORT_NONE}]

InitDepth ==
  /\ \E a \in DepthArguments : CreateState("call", a)
  /\ MergeIdle
  /\ CompareIdle
  /\ previous = NoPrevious

CallAgain ==
  /\ pc = "done"
  /\ previous = NoPrevious
  /\ args.depth >= 0
  /\ ret >= 0
  /\ full_at = 0
  /\ event = <<"finish", "ok">>
  /\ previous' = [depth |-> args.depth,
                  paths |-> {file_list[i] : i \in 1..Len(file_list)}]
  /\ \E depth \in ((args.depth + 1)..MaxDepthArg) \cup {0 - 1} :
       args' = [args EXCEPT !.depth = depth]
  /\ pc' = "call"
  /\ fl_ptr' = "uninit"
  /\ fl_term' = FALSE
  /\ file_list' = <<>>
  /\ file_list_size' = 0
  /\ file_list_size_max' = 0
  /\ regex' = NoRegex
  /\ start_dir' = NULL
  /\ stack' = <<>>
  /\ stack_size' = 0
  /\ frames' = <<>>
  /\ parse_ret' = 0
  /\ ret' = 0
  /\ errno' = "0"
  /\ dirs_open' = 0
  /\ paths_live' = 0
  /\ event' = <<"call", "none">>
  /\ UNCHANGED <<ub, full_at, fs>>
  /\ UNCHANGED <<mvars, kvars>>

Next == Enter \/ Opendir \/ ReadEntry \/ CloseDir \/ Finish \/ Destroy

Spec == Init /\ [][Next]_vars

NextMerge == file_list_merge \/ DestroyMerged

SpecMerge == InitMerge /\ [][NextMerge]_vars

NextDepth == Next \/ CallAgain

SpecDepth == InitDepth /\ [][NextDepth]_vars

NextCompare == Compare \/ Sort \/ SortAgain

SpecCompare == InitCompare /\ [][NextCompare]_vars

\* ------------------------------------------------------------------------
\* Properties of file_list_create
\* ------------------------------------------------------------------------

\* file_list_create has returned.
Returned == pc = "done"

\* C1: every failure of file_list_create other than the capacity-exhausted
\* case returns -1 with the caller's list handle deallocated and set to NULL.
C1_FailureLeavesNullHandle == (Returned /\ ret = 0 - 1) => fl_ptr = "null"

\* The list is in the order its sort method asks for: no path compares
\* greater than its successor under the callback of the method.
SortedBy(list, sort_method) ==
  \/ sort_method = FL_SORT_NONE
  \/ \A i \in 1..(Len(list) - 1) :
       LET r == CallCompar(get_compar_fn(sort_method), list[i], list[i + 1])
       IN r # UB /\ r <= 0

\* file_list_add reported E2BIG during the traversal, and file_list_create
\* has returned without a failed allocation afterwards.
CapacityExhausted == Returned /\ full_at > 0 /\ event = <<"finish", "ok">>

FrameId(fr) == StatBuf(DirNode(fr))

\* No two active calls of parse_file_tree work on the same directory.
NoDirectoryTwice ==
  \A i, j \in 1..Len(frames) :
    i # j => FrameId(frames[i]) # FrameId(frames[j])

\* Calls that list every type of entry or regular files only, with every
\* combination of flags, to unlimited depth or to the largest limited one.
LoopArguments ==
  [dir : Dirs, file_type : {0, FL_REG}, regex_pattern : {NULL},
   depth : {0 - 1, MaxDepthArg}, flags : AllFlags,
   sort_method : {FL_SORT_DEFAULT}]

InitLoop ==
  /\ \E a \in LoopArguments : CreateState("call", a)
  /\ MergeIdle
  /\ CompareIdle
  /\ previous = NoPrevious

\* The steps of file_list_create are taken for as long as one is possible.
SpecLoop == InitLoop /\ [][Next]_vars /\ WF_vars(Next)

\* C3: file_list_create terminates on every directory graph, cyclic links
\* included, and never descends into a directory whose (device, inode)
\* identity is that of a directory on the current ancestor chain.
C3_LoopSafety == [](NoDirectoryTwice) /\ <>(Returned)

\* With unlimited depth and links followed, the traversal has passed the
\* symbolic link up and the hard link hl, which lead back to ancestors,
\* without listing them, and file_list_create has returned.
C3_Witness ==
  /\ Returned
  /\ parse_ret = 0
  /\ args.depth = 0 - 1
  /\ Flag(FL_FOLLOW_LINKS)
  /\ \E i \in 1..Len(file_list) :
       file_list[i] = Str(<<".", "/", "B", "/", "c", "/", "e">>)
  /\ \A i \in 1..Len(file_list) :
       /\ file_list[i] # Str(<<".", "/", "B", "/", "u", "p">>)
       /\ file_list[i] # Str(<<".", "/", "B", "/", "c", "/", "h", "l">>)

\* The number of directories between the start directory and a listed path.
Level(path) == Len(Components(path)) - Len(Components(start_dir)) - 1

Listed(path) == \E i \in 1..Len(file_list) : file_list[i] = path

\* C4: with a depth d >= 0 every returned path lies at most d directory
\* levels below the start directory (d = 0: entries of the start directory
\* only); with d = -1 the depth counter of every call stays -1, so that no
\* level is excluded.
C4_DepthBound ==
  /\ (Returned /\ ret >= 0 /\ args.depth >= 0) =>
       \A i \in 1..Len(file_list) :
         Level(file_list[i]) >= 0 /\ Level(file_list[i]) <= args.depth
  /\ \A k \in 1..Len(frames) :
       frames[k].directory_depth =
         IF args.depth < 0 THEN args.depth ELSE args.depth - (k - 1)

\* Depth 0 from the working directory: the subdirectory B is listed, nothing
\* inside it is.
C4_Witness ==
  /\ Returned
  /\ parse_ret = 0
  /\ ret = 4
  /\ args.depth = 0
  /\ Listed(Str(<<".", "/", "B">>))
  /\ ~ Listed(Str(<<".", "/", "B", "/", "b">>))

\* The type of a listed path as the file system has it: that of the link
\* itself unless links are followed.
TypeOf(path) ==
  fs[IF Flag(FL_FOLLOW_LINKS) THEN stat(path) ELSE lstat(path)].type

\* The FL_ bit of a type.
TypeBit(type) ==
  CASE type = DT_DIR -> FL_DIR
    [] type = DT_REG -> FL_REG
    [] type = DT_LNK -> FL_LNK
    [] OTHER -> FL_UNKNOWN

\* The entry name of a listed path.
EntryName(path) == Components(path)[Len(Components(path))]

\* C5: every entry of the returned list has a type the mask enables (mask 0
\* enabling all) and, if a pattern was given, an entry name that matches it.
C5_TypeAndPattern ==
  (Returned /\ ret >= 0) =>
    \A i \in 1..Len(file_list) :
      /\ \/ args.file_type = 0
         \/ BitAnd(args.file_type, TypeBit(TypeOf(file_list[i]))) # 0
      /\ args.regex_pattern # NULL =>
           regexec_ok(args.regex_pattern, regex.cflags, EntryName(file_list[i]))

\* A nested entry whose type was queried (b has no type hint) is listed under
\* a type mask and a pattern.
C5_Witness ==
  /\ Returned
  /\ parse_ret = 0
  /\ args.file_type = FL_REG
  /\ args.regex_pattern = Str(<<"b">>)
  /\ file_list = <<Str(<<".", "/", "B", "/", "b">>)>>

\* The devices of the directories strictly between the start directory and
\* a listed path.
AncestorDevices(path) ==
  LET comps == Components(path)
  IN {fs[Resolve(Walk("R", SubSeq(comps, 1, k)))].st_dev :
        k \in (Len(Components(start_dir)) + 1)..(Len(comps) - 1)}

\* C6: with FL_XDEV no call of parse_file_tree works on a directory of
\* another device than the start directory's, and no returned path has an
\* ancestor below the start directory on another device.
C6_SameDevice ==
  Flag(FL_XDEV) =>
    /\ \A k \in 1..Len(frames) :
         fs[DirNode(frames[k])].st_dev = fs[stat(args.dir)].st_dev
    /\ (Returned /\ ret >= 0) =>
         \A i \in 1..Len(file_list) :
           AncestorDevices(file_list[i]) \subseteq {fs[stat(args.dir)].st_dev}

\* With FL_XDEV the directory m of another device is listed, and the file
\* in it is not.
C6_Witness ==
  /\ Returned
  /\ parse_ret = 0
  /\ Flag(FL_XDEV)
  /\ args.depth = 0 - 1
  /\ Listed(Str(<<".", "/", "B", "/", "m">>))
  /\ Listed(Str(<<".", "/", "B", "/", "c", "/", "e">>))
  /\ ~ Listed(Str(<<".", "/", "B", "/", "m", "/", "x">>))

\* C7: a pattern is compiled case-insensitive unless FL_REGEX_CASE is set
\* and extended unless FL_REGEX_BASIC is set, whatever the other flags.
C7_RegexDefaults ==
  regex.set =>
    /\ ("REG_ICASE" \in regex.cflags) <=> ~ Flag(FL_REGEX_CASE)
    /\ ("REG_EXTENDED" \in regex.cflags) <=> ~ Flag(FL_REGEX_BASIC)

\* ------------------------------------------------------------------------
\* Properties of file_list_merge
\* ------------------------------------------------------------------------

\* The paths of a list: its array without the terminating NULL pointer.
Paths(handle) == SubSeq(handle.arr, 1, Len(handle.arr) - 1)

\* C8: after file_list_merge with a sort method other than none the
\* combined list is in the order of the comparator of that method.
C8_MergeSortsByMethod ==
  (mpc = "done" /\ merge_ret >= 0 /\ merge_method # FL_SORT_NONE) =>
    SortedBy(Paths(destination), merge_method)

\* C9: file_list_merge with sort method none and size hints that are correct
\* or 0 leaves the destination equal to the destination list followed by the
\* source list and a NULL terminator, returns the sum of their lengths and
\* sets the source handle to NULL (unless realloc() fails).
C9_MergeConcatenates ==
  [][(/\ mpc = "call"
      /\ mpc' = "done"
      /\ merge_method = FL_SORT_NONE
      /\ n_dest \in {0, Len(Paths(destination))}
      /\ n_source \in {0, Len(Paths(source))}
      /\ merge_ret' # 0 - 1)
     => /\ destination'.ptr = "alloc"
        /\ destination'.arr = Paths(destination) \o Paths(source) \o <<NULL>>
        /\ merge_ret' = Len(Paths(destination)) + Len(Paths(source))
        /\ source' = NullHandle]_vars

\* Two lists of two paths have been merged without sorting, the size of the
\* destination unspecified and that of the source given.
C9_Witness ==
  /\ mpc = "done"
  /\ merge_method = FL_SORT_NONE
  /\ n_dest = 0
  /\ n_source = 2
  /\ merge_ret = 4
  /\ source = NullHandle
  /\ Paths(destination) =
       <<Str(<<".", "/", "a", "9">>), Str(<<".", "/", "B">>),
         Str(<<".", "/", "a", "1", "0">>), Str(<<".", "/", "B">>)>>

\* ------------------------------------------------------------------------
\* The order of the list file_list_create returns
\* ------------------------------------------------------------------------

\* The text before the last separator of a path, and the text after it.
Prefix(path) == SubSeq(path, 1, strrchr_sep(path))

Basename(path) == SubSeq(path, strrchr_sep(path) + 2, Len(path))

\* The base comparator of a sort method, applied to two strings.
BaseCompare(sort_method, left, right) ==
  CASE sort_method = FL_SORT_DEFAULT -> strcmp_default(left, 0, right, 0)
    [] sort_method = FL_SORT_NATURAL -> strcmp_natural(left, 0, right, 0)
    [] sort_method = FL_SORT_COLLATE -> strcoll(left, 0, right, 0)
    [] sort_method = FL_SORT_ASCII -> strcmp(left, 0, right, 0)

\* Paths with different prefixes are in the order of their prefixes, paths
\* with the same prefix in the order of their basenames.
PrefixOrder(list, sort_method) ==
  \A i, j \in 1..Len(list) :
    i < j =>
      IF Prefix(list[i]) # Prefix(list[j])
        THEN BaseCompare(sort_method, Prefix(list[i]), Prefix(list[j])) < 0
        ELSE BaseCompare(sort_method, Basename(list[i]), Basename(list[j])) <= 0

\* The directory an entry is in: the components of its path but the last.
DirOf(path) == SubSeq(Components(path), 1, Len(Components(path)) - 1)

\* Directory d is a proper ancestor of directory e.
Above(d, e) == Len(d) < Len(e) /\ SubSeq(e, 1, Len(d)) = d

\* The list is sorted by file_list_create with a method other than none.
ReturnedSorted == Returned /\ ret >= 0 /\ args.sort_method # FL_SORT_NONE

\* C10 as stated: the returned list is in prefix order, and the entries
\* directly inside a directory precede every entry inside its
\* subdirectories.
C10_EntriesBeforeSubdirectories ==
  ReturnedSorted =>
    /\ PrefixOrder(file_list, args.sort_method)
    /\ \A i, j \in 1..Len(file_list) :
         Above(DirOf(file_list[i]), DirOf(file_list[j])) => i < j

\* C10: the returned list is in prefix order, and the paths whose prefix is
\* a directory precede every path whose prefix is below that directory.
C10_HierarchicalOrder ==
  ReturnedSorted =>
    /\ PrefixOrder(file_list, args.sort_method)
    /\ \A i, j \in 1..Len(file_list) :
         Above(Components(Prefix(file_list[i])),
               Components(Prefix(file_list[j]))) => i < j

\* A sorted list of entries from three levels, a directory with its
\* appended separator among them.
C10_Witness ==
  /\ ReturnedSorted
  /\ Flag(FL_DIR_SEP)
  /\ args.sort_method = FL_SORT_NATURAL
  /\ Len(file_list) = FL_MAX_LIST_SIZE
  /\ Listed(Str(<<".", "/", "B", "/", "c", "/", "e">>))
  /\ Listed(Str(<<".", "/", "B", "/", "c", "/">>))
  /\ Listed(Str(<<".", "/", "B", "/", "b">>))

\* ------------------------------------------------------------------------
\* Properties of the base comparators
\* ------------------------------------------------------------------------

Sign(r) == IF r < 0 THEN 0 - 1 ELSE IF r > 0 THEN 1 ELSE 0

\* A base comparator has been called on (s1, s2) and on (s2, s1).
Compared(fn) == cmp_pc = "compared" /\ cmp_fn = fn

\* The length of the run of decimal digits that starts at position k of s.
RECURSIVE RunLength(_, _)
RunLength(s, k) ==
  IF k <= Len(s) /\ isdigit(s[k]) THEN 1 + RunLength(s, k + 1) ELSE 0

\* The unsigned integer a run of decimal digits writes.
RECURSIVE Magnitude(_)
Magnitude(run) ==
  IF run = <<>> THEN 0
  ELSE 10 * Magnitude(SubSeq(run, 1, Len(run) - 1)) + (run[Len(run)] - 48)

\* The order of two characters that are equal under case folding: the
\* lowercase one first.
LowerFirst(ch1, ch2) ==
  IF ch1 = ch2 THEN 0 ELSE IF ch1 = tolower(ch1) THEN 0 - 1 ELSE 1

\* Natural order from position k on, tie being the order the case differences
\* before k give: negative when a sorts first, positive when b does.
RECURSIVE NaturalOrder(_, _, _, _)
NaturalOrder(a, b, k, tie) ==
  IF k > Len(a) \/ k > Len(b)
    THEN IF Len(a) = Len(b) THEN tie ELSE Len(a) - Len(b)
  ELSE IF isdigit(a[k]) /\ isdigit(b[k])
    THEN LET run1 == SubSeq(a, k, k + RunLength(a, k) - 1)
             run2 == SubSeq(b, k, k + RunLength(b, k) - 1)
         IN IF Magnitude(run1) # Magnitude(run2)
              THEN Magnitude(run1) - Magnitude(run2)
            ELSE IF Len(run1) # Len(run2) THEN Len(run2) - Len(run1)
            ELSE NaturalOrder(a, b, k + Len(run1), tie)
  ELSE IF tolower(a[k]) # tolower(b[k]) THEN tolower(a[k]) - tolower(b[k])
  ELSE NaturalOrder(a, b, k + 1,
                    IF tie = 0 THEN LowerFirst(a[k], b[k]) ELSE tie)

HasDigit(s) == \E k \in 1..Len(s) : isdigit(s[k])

\* C11: strcmp_natural orders two strings as strcmp_default does (it is
\* defined where strcmp_default is, and has its value when a string has no
\* digit), except that aligned runs of digits are compared as unsigned
\* integers: the smaller magnitude first, leading zeros ignored, and of equal
\* magnitudes the run with more leading zeros first; file2 < file07 < file7
\* < file10.
C11_NaturalOrder ==
  Compared("strcmp_natural") =>
    /\ (cmp_ret = UB) <=> (strcmp_default(s1, 0, s2, 0) = UB)
    /\ cmp_ret # UB => Sign(cmp_ret) = Sign(NaturalOrder(s1, s2, 1, 0))
    /\ (~ HasDigit(s1) \/ ~ HasDigit(s2)) =>
         cmp_ret = strcmp_default(s1, 0, s2, 0)
    /\ LET file2 == Str(<<"f", "i", "l", "e", "2">>)
           file07 == Str(<<"f", "i", "l", "e", "0", "7">>)
           file7 == Str(<<"f", "i", "l", "e", "7">>)
           file10 == Str(<<"f", "i", "l", "e", "1", "0">>)
           chain == <<file2, file07, file7, file10>>
       IN \A m, n \in 1..4 :
            m < n => /\ strcmp_natural(chain[m], 0, chain[n], 0) < 0
                     /\ strcmp_natural(chain[n], 0, chain[m], 0) > 0
                     /\ strcmp_natural(chain[n], 0, chain[m], 0) # UB

\* 011 has been compared with 10: the greater magnitude sorts last, where
\* strcmp_default puts the string that starts with 0 first.
C11_Witness ==
  /\ Compared("strcmp_natural")
  /\ s1 = Str(<<"0", "1", "1">>)
  /\ s2 = Str(<<"1", "0">>)
  /\ cmp_ret > 0
  /\ cmp_ret # UB
  /\ strcmp_default(s1, 0, s2, 0) < 0

\* A string with its uppercase letters replaced by lowercase ones.
Fold(s) == [k \in 1..Len(s) |-> tolower(s[k])]

\* The first position at which both strings have a character and the
\* characters differ (0: there is none).
FirstDifference(a, b) ==
  LET differing == {k \in 1..Len(a) : k <= Len(b) /\ a[k] # b[k]}
  IN IF differing = {} THEN 0
     ELSE CHOOSE k \in differing : \A m \in differing : k <= m

\* The order of the claim: negative when a sorts first, positive when b does,
\* 0 when a and b are the same string.
DefaultOrder(a, b) ==
  LET d == FirstDifference(Fold(a), Fold(b))
      e == FirstDifference(a, b)
  IN IF d # 0 THEN Fold(a)[d] - Fold(b)[d]
     ELSE IF Len(a) # Len(b) THEN Len(a) - Len(b)
     ELSE IF e # 0 THEN LowerFirst(a[e], b[e])
     ELSE 0

\* C12: strcmp_default orders any two strings by their case-folded
\* characters from left to right; strings that are equal under case folding
\* by the first position where their cases differ, the one with the
\* lowercase letter first; and a string before every string it is a strict
\* prefix of under case folding, whatever case differences precede.
C12_DefaultOrder ==
  Compared("strcmp_default") =>
    /\ cmp_ret # UB
    /\ Sign(cmp_ret) = Sign(DefaultOrder(s1, s2))

\* The comparators of the default, natural and ASCII sort methods.
OrderComparators == {"strcmp_default", "strcmp_natural", "strcmp"}

NonEmptyPair == s1 # <<>> /\ s2 # <<>>

\* C13: over non-empty strings the default, natural and ASCII comparators
\* are total orders: cmp(b, a) has the opposite sign of cmp(a, b), cmp(a, b)
\* is 0 only for a = b, and cmp(a, b) < 0 and cmp(b, c) < 0 imply
\* cmp(a, c) < 0; and qsort() on a list it has sorted by the same method
\* leaves the list as it is.
C13_TotalOrder ==
  /\ (cmp_pc = "compared" /\ cmp_fn \in OrderComparators /\ NonEmptyPair) =>
       /\ cmp_ret # UB
       /\ cmp_rev # UB
       /\ Sign(cmp_rev) = 0 - Sign(cmp_ret)
       /\ cmp_ret = 0 => s1 = s2
       /\ cmp_ret < 0 =>
            \A s3 \in Strings \ {<<>>} :
              compar_fn(cmp_fn, s2, 0, s3, 0) < 0 =>
                compar_fn(cmp_fn, s1, 0, s3, 0) < 0
  /\ (cmp_pc = "resorted" /\ cmp_fn \in OrderComparators /\ NonEmptyPair) =>
       sort_list = sort_prev

\* a1, A01 and a have been sorted in natural order, and sorted again.
C13_Witness ==
  /\ cmp_pc = "resorted"
  /\ cmp_fn = "strcmp_natural"
  /\ s1 = Str(<<"a", "1">>)
  /\ s2 = Str(<<"A", "0", "1">>)
  /\ cmp_ret > 0
  /\ cmp_rev < 0
  /\ sort_prev = <<Str(<<".", "/", "a">>), Str(<<".", "/", "A", "0", "1">>),
                   Str(<<".", "/", "a", "1">>)>>
  /\ sort_list = sort_prev

\* ------------------------------------------------------------------------
\* Properties of the stat stack and of the list during the traversal
\* ------------------------------------------------------------------------

\* The traversal is under way: parse_file_tree has not returned to
\* file_list_create, with or without an error.
Traversing == pc = "scan"

\* The (device, inode) identities of the directories of the active calls of
\* parse_file_tree, the start directory first, as the file system has them.
AncestorChain == [k \in 1..Len(frames) |-> FrameId(frames[k])]

\* What a step of the traversal does to the stack: a descent pushes the
\* identity of the directory entered, a return from a descent pops it, and
\* every other step (an entry listed or skipped) leaves the stack alone.
StackStep ==
  (Traversing /\ pc' = "scan") =>
    /\ Len(frames') = Len(frames) => stack' = stack
    /\ Len(frames') = Len(frames) + 1 =>
         stack' = Append(stack, FrameId(frames'[Len(frames')]))
    /\ Len(frames') = Len(frames) - 1 =>
         stack' = SubSeq(stack, 1, Len(stack) - 1)

\* C14: while the traversal has not aborted, the stat stack holds exactly
\* the identities of the directories from the start directory (bottom) to
\* the directory being scanned, in order; an identity is pushed by a descent
\* and popped by the return from it, and skipped directories leave the
\* stack unchanged.
C14_StackIsAncestorChain ==
  /\ [](Traversing => (stack = AncestorChain /\ Len(stack) <= stack_size))
  /\ [][StackStep]_vars

\* Three directories deep, where the stack has grown beyond its initial
\* size, the hard link to an ancestor has just been skipped.
C14_Witness ==
  /\ Traversing
  /\ event = <<"entry", "loop">>
  /\ Len(frames) = 3
  /\ Len(stack) > STAT_STACK_INITIAL_SIZE
  /\ stack = <<[st_dev |-> 1, st_ino |-> 1], [st_dev |-> 1, st_ino |-> 2],
               [st_dev |-> 1, st_ino |-> 3]>>

\* count <= capacity <= FL_MAX_LIST_SIZE, count being the number of paths
\* the array holds while it is filled.
ListWithinCapacity ==
  /\ file_list_size <= file_list_size_max
  /\ file_list_size_max <= FL_MAX_LIST_SIZE
  /\ (Traversing \/ pc = "finish") => Len(file_list) = file_list_size

\* What a step in which file_list_add is called does to the list.
AppendStep ==
  /\ (Traversing /\ event'[2] = "added") =>
       /\ file_list_size' = file_list_size + 1
       /\ Len(file_list') = Len(file_list) + 1
       /\ SubSeq(file_list', 1, Len(file_list)) = file_list
       /\ file_list_size_max' =
            IF file_list_size < file_list_size_max THEN file_list_size_max
            ELSE IF 2 * file_list_size_max > FL_MAX_LIST_SIZE
              THEN FL_MAX_LIST_SIZE
            ELSE 2 * file_list_size_max
  /\ (Traversing /\ event'[2] = "e2big") =>
       /\ file_list_size = FL_MAX_LIST_SIZE
       /\ errno' = "E2BIG"
       /\ UNCHANGED <<file_list, file_list_size, file_list_size_max>>
  /\ (Traversing /\ file_list_size = FL_MAX_LIST_SIZE) =>
       /\ event'[2] # "added"
       /\ UNCHANGED <<file_list, file_list_size, file_list_size_max>>

\* C15: in every state count <= capacity <= FL_MAX_LIST_SIZE; an append to
\* a full list doubles the capacity, clamped to the maximum, and an append
\* to a list that holds the maximum fails with E2BIG and leaves count,
\* capacity and elements as they are.
C15_BoundedGrowth == [](ListWithinCapacity) /\ [][AppendStep]_vars

\* An append has failed on a list that holds the maximum, its capacity
\* having been clamped to a value that no doubling gives.
C15_Witness ==
  /\ event[2] = "e2big"
  /\ pc = "finish"
  /\ Len(file_list) = FL_MAX_LIST_SIZE
  /\ file_list_size = FL_MAX_LIST_SIZE
  /\ file_list_size_max = FL_MAX_LIST_SIZE
  /\ \A n \in 0..FL_MAX_LIST_SIZE :
       FL_INITIAL_LIST_SIZE * 2^n # FL_MAX_LIST_SIZE

\* ------------------------------------------------------------------------
\* Directories that cannot be opened
\* ------------------------------------------------------------------------

\* The directories on the way from the start directory to a listed path,
\* the start directory included, the entry itself not.
DirectoriesAbove(path) ==
  LET comps == Components(path)
  IN {Resolve(Walk("R", SubSeq(comps, 1, k))) :
        k \in Len(Components(start_dir))..(Len(comps) - 1)}

\* No returned path lies inside a directory that cannot be read.
NothingFromDeniedDirectories ==
  (Returned /\ ret >= 0) =>
    \A i \in 1..Len(file_list) :
      \A d \in DirectoriesAbove(file_list[i]) : fs[d].readable

\* A failed opendir() has been cleaned up after when file_list_create
\* returns: -1, no list, no path and no directory handle left.
FailedOpendirCleanedUp ==
  (Returned /\ event = <<"finish", "discarded">>) =>
    /\ ret = 0 - 1
    /\ fl_ptr = "null"
    /\ file_list = <<>>
    /\ paths_live = 0
    /\ dirs_open = 0

\* What the steps around a failed opendir() do.
OpendirStep ==
  \* permission denied: no error, no handle, nothing listed but possibly the
  \* directory itself, and the caller goes on with the next entry (unless
  \* adding the directory itself fails for lack of memory or room)
  /\ (Traversing /\ event'[1] = "denied") =>
       /\ ~ fs[DirNode(Top)].readable
       /\ event'[2] \in {"finished", "added", "no_match", "type_off"} =>
            /\ parse_ret' = 0
            /\ dirs_open' = dirs_open
            /\ Len(frames) > 1 =>
                 /\ pc' = "scan"
                 /\ Len(frames') = Len(frames) - 1
                 /\ frames'[Len(frames')].pos = frames[Len(frames) - 1].pos + 1
       /\ event'[2] = "added" =>
            file_list' = Append(file_list, file_list'[Len(file_list')])
       /\ event'[2] # "added" => file_list' = file_list
       /\ event'[2] = "added" =>
            Components(file_list'[Len(file_list')]) = Components(Top.directory)
  \* any other failure: every caller returns -1, closing its directory and
  \* freeing its path
  /\ (Traversing /\ event' = <<"opendir", "failed">>) =>
       /\ errno' # "EACCES"
       /\ pc' = "finish"
       /\ parse_ret' = 0 - 1
       /\ dirs_open' = 0
       /\ paths_live' = file_list_size
       /\ frames' = <<>>
  \* file_list_create then frees the list
  /\ (pc = "finish" /\ event = <<"opendir", "failed">> /\ pc' = "done") =>
       event' = <<"finish", "discarded">>

ReturnedAgain ==
  /\ Returned
  /\ previous # NoPrevious
  /\ ret >= 0
  /\ full_at = 0
  /\ event = <<"finish", "ok">>

\* C17: for the same directory graph, type mask, pattern and flags, every
\* path file_list_create returns with depth d >= 0 is also returned with a
\* greater depth and with unlimited depth, a directory whose identity is
\* that of one of its ancestors included.
C17_DepthMonotone ==
  ReturnedAgain =>
    \A path \in previous.paths : Listed(path)

=============================================================================
